---- MODULE Spec2Model ----
(***************************************************************************)
(* TCodeServicerClient (src/src/tcode_api/servicer/client.py): the client  *)
(* side of the scheduling / execution / polling / cancellation protocol    *)
(* and of the teach-mode bracket, as a state machine.                      *)
(*                                                                         *)
(* One behaviour is one top-level call of the client (run_script,          *)
(* execute_run_loop or teach_point).  Every step of the model is one       *)
(* blocking step of the code: an HTTP request with what the code does with *)
(* its response, or one key read.  The servicer is outside the repository; *)
(* its answers are inputs drawn from small sets, and the little of its     *)
(* state the claims speak about (the schedule and the run state) follows   *)
(* the request/response contract of the HTTP surface.                      *)
(***************************************************************************)
EXTENDS Integers, Sequences, FiniteSets, TLC

(* ------------------------------ bounds --------------------------------- *)

\* Scripts have q * batch_size + r commands, q \in 0..MaxBatches, r \in 0..MaxRem.
MaxBatches == 1
MaxRem == 1
\* get_status polls of one run loop.
MaxPolls == 2
\* Largest operation_count a status response carries.
MaxOpCount == 1
\* Key events read by one teach_point call.
MaxKeys == 2
\* Longest command list of the serial/batched comparison.
MaxLen == 4

(* ------------------------- program constants --------------------------- *)

\* self.timeout, client.py:37
DefaultTimeout == 5
\* discover_fleet passes timeout=20, client.py:203
DiscoverTimeout == 20
\* batch_size in run_script, client.py:266
batch_size == 100
\* mm(0.5) / mm(-0.5) of the jog moves, in tenths of a millimetre, client.py:167,177
JogStep == 5
\* the request of teach_point's finally block passes no timeout, client.py:188
NoTimeout == 0

(* --------------------------- input domains ----------------------------- *)

RobotIds == {1, 2}
Transforms == {"T1", "T2"}
\* GetStatusResponse.command_id: CommandID | None ; 0 stands for None
CommandIds == {0, 1}
NoMessage == "none"
Messages == {"m1", "m2"}
\* get_key() results: the keys teach_point matches on, and one other key
Keys == {"w", "s", "q", "esc", "x"}
ScriptLengths == {q * batch_size + r : q \in 0..MaxBatches, r \in 0..MaxRem}

(* ------------------------------ requests ------------------------------- *)

\* One HTTP request of the client: the client method that issues it, its
\* argument, the number of commands it carries, the robot it names and the
\* timeout passed to requests.
Req(op, arg, count, robot, timeout) ==
    [op |-> op, arg |-> arg, count |-> count, robot |-> robot, timeout |-> timeout]

clear_schedule == Req("clear_schedule", 0, 0, 0, DefaultTimeout)
clear_tcode_resolution == Req("clear_tcode_resolution", 0, 0, 0, DefaultTimeout)
clear_labware == Req("clear_labware", 0, 0, 0, DefaultTimeout)
clear_tf_tree_history == Req("clear_tf_tree_history", 0, 0, 0, DefaultTimeout)
discover_fleet == Req("discover_fleet", 0, 0, 0, DiscoverTimeout)
get_status == Req("get_status", 0, 0, 0, DefaultTimeout)
\* schedule_command(generate_id(), command): command k of the script
schedule_command(k) == Req("schedule_command", k, 1, 0, DefaultTimeout)
\* schedule_commands([...]): commands first .. first+count-1 of the script
schedule_commands(first, count) == Req("schedule_commands", first, count, 0, DefaultTimeout)
set_run_state(state) == Req("set_run_state", IF state THEN 1 ELSE 0, 0, 0, DefaultTimeout)
enter_teach_mode(robot_id) == Req("enter_teach_mode", 0, 0, robot_id, DefaultTimeout)
exit_teach_mode(robot_id) == Req("exit_teach_mode", 0, 0, robot_id, NoTimeout)
\* schedule_command of MOVE_TO_JOINT_POSE(robot_id, [0, delta, 0, 0], relative=True)
jog_command(robot_id, delta) == Req("schedule_command", delta, 1, robot_id, DefaultTimeout)

(* ------------------------------- state --------------------------------- *)

VARIABLES
    pc,                \* position of the client in its code
    call,              \* the top-level call: "none", "run_script", "execute_run_loop", "teach_point"
    commands,          \* len(script.commands)
    clean_environment, \* run_script argument
    batch_process,     \* run_script argument
    i,                 \* serial mode: commands scheduled so far (enumerate index)
    batch_index,       \* batched mode: batches scheduled so far
    status,            \* execute_run_loop: the last GetStatusResponse
    robot_id,          \* teach_point argument
    keys,              \* teach_point: key events read so far
    last_key,          \* teach_point: what get_key() did last, "none" before
    jog,               \* teach_point: joint delta of the jog move being issued
    pending,           \* teach_point: exception in flight while the finally block runs
    transform,         \* teach_point: local variable transform ("None" until set)
    sent,              \* every request sent, in order
    results,           \* result.success of every scheduling Result received, in command order
    checked,           \* how many of results the client has inspected
    log,               \* records written to the logger (fatal and warning)
    outcome,           \* how the call ended: "none", "returned" or the exception raised
    retval,            \* value returned by teach_point
    interrupted,       \* Len(sent) when the first KeyboardInterrupt was delivered, -1 if none
    interrupted_at,    \* position of the client when it was delivered, "none" if none
    scheduled,         \* servicer: script commands accepted into the schedule
    run_state,         \* servicer: run state of the fleet
    \* the same command list scheduled serially and in batches, side by side
    eq_verdicts,       \* result.success the servicer gives to each command
    eq_size,           \* the batch size of the batched scheduling
    eq_i,              \* serial: commands scheduled so far
    eq_batch_index,    \* batched: batches scheduled so far
    eq_serial,         \* serial: Results received, in order
    eq_batched,        \* batched: Results received, in order
    eq_serial_end,     \* serial: "scheduling", "scheduled" or "RuntimeError"
    eq_batched_end,    \* batched: "scheduling", "scheduled" or "RuntimeError"
    \* one TCodeScriptBuilder and the file it writes and loads
    ast,               \* self.ast: metadata, fleet (robots with tools, labware), pipette_tips, tcode
    file,              \* content of the file at file_path, NoFile while it does not exist
    op,                \* the last operation called on the builder, with its arguments
    raised,            \* the exception that operation raised, "none" if it returned
    clock,             \* operations called so far; the time datetime.now() reads
    written,           \* the IDs that were bound, by kind, when the file was last written
    emitted,           \* the script emit() last returned: what it was then, what it shares
    \* one TCodeScript written to a file object and read back
    tcode_script,      \* the script in memory
    file_object,       \* what has been written to the file object, NoFile before
    read_script,       \* the script TCodeScript.read returned, NoScript before
    warned,            \* whether read logged the version warning
    \* one call of migrate_v1_to_v2
    data,              \* the dict passed in
    new_data,          \* the dict returned, NoData before the call and when it raised
    migrate_raised,    \* "pending" before the call, then "none" or the exception raised
    \* one binary operation between two ValueWithUnits
    vwu_self,          \* the left operand
    vwu_other,         \* the right operand
    vwu_operator,      \* the operation applied, "none" before
    vwu_result,        \* what it returned or raised, NoResult before
    \* one TCodeIntegratorBase serving webhooks
    tcode_server_host,       \* self.tcode_server_host, None if not configured
    incoming_request_host,   \* self.incoming_request_host
    webhooks                 \* the webhooks received, in order, and where each resumed

client_vars == <<pc, call, commands, clean_environment, batch_process, i, batch_index, status,
                 robot_id, keys, last_key, jog, pending, transform, sent, results, checked, log, outcome,
                 retval, interrupted, interrupted_at, scheduled, run_state>>

eq_vars == <<eq_verdicts, eq_size, eq_i, eq_batch_index, eq_serial, eq_batched,
             eq_serial_end, eq_batched_end>>

builder_vars == <<ast, file, op, raised, clock, written, emitted>>

io_vars == <<tcode_script, file_object, read_script, warned>>

migrate_vars == <<data, new_data, migrate_raised>>

units_vars == <<vwu_self, vwu_other, vwu_operator, vwu_result>>

integrator_vars == <<tcode_server_host, incoming_request_host, webhooks>>

\* the state outside the client: no step of the client touches it
other_vars == <<eq_vars, builder_vars, io_vars, migrate_vars, units_vars, integrator_vars>>

\* the state outside the side-by-side scheduling loops
eq_other_vars == <<client_vars, builder_vars, io_vars, migrate_vars, units_vars, integrator_vars>>

\* the state outside the builder
builder_other_vars == <<client_vars, eq_vars, io_vars, migrate_vars, units_vars, integrator_vars>>

\* the state outside the script being written and read
io_other_vars == <<client_vars, eq_vars, builder_vars, migrate_vars, units_vars, integrator_vars>>

\* the state outside the migration
migrate_other_vars == <<client_vars, eq_vars, builder_vars, io_vars, units_vars, integrator_vars>>

\* the state outside the operation on two ValueWithUnits
units_other_vars == <<client_vars, eq_vars, builder_vars, io_vars, migrate_vars, integrator_vars>>

\* the state outside the integrator
integrator_other_vars == <<client_vars, eq_vars, builder_vars, io_vars, migrate_vars, units_vars>>

vars == <<client_vars, eq_vars, builder_vars, io_vars, migrate_vars, units_vars, integrator_vars>>

\* arguments and locals of run_script
script_vars == <<commands, clean_environment, batch_process, i, batch_index, results, checked>>
\* arguments and locals of teach_point
teach_vars == <<robot_id, keys, last_key, jog, pending, transform, retval>>

\* GetStatusResponse (servicer_api.py): command_id, operation_count, run_state, result
GetStatusResponses ==
    { [command_id |-> c, operation_count |-> n, success |-> TRUE, message |-> NoMessage] :
          c \in CommandIds, n \in 0..MaxOpCount }
    \cup
    { [command_id |-> c, operation_count |-> n, success |-> FALSE, message |-> m] :
          c \in CommandIds, n \in 0..MaxOpCount, m \in Messages }

NoStatus == [command_id |-> 0, operation_count |-> -1, success |-> TRUE, message |-> NoMessage]

(* ------------------- the script builder's data model -------------------- *)

\* Python's None
None == "None"

\* symbolic IDs the caller passes; generate_id() never returns one of them
Ids == {"ID-0", "ID-1"}
Names == {"a", "b"}
Descriptions == {"d"}
\* labware indices: negative, zero, and one past an 8 x 12 grid
Indices == {-1, 0, 8 * 12}
\* importlib.metadata.version("tcode_api")
CurrentVersion == "current"

Metadata(name, description, timestamp) ==
    [name |-> name, description |-> description, timestamp |-> timestamp,
     tcode_api_version |-> CurrentVersion]

Fleet == [robots |-> <<>>, labware |-> <<>>]

TCodeAST(metadata) ==
    [metadata |-> metadata, fleet |-> Fleet, pipette_tips |-> <<>>, tcode |-> <<>>]

Robot(id, tools) == [id |-> id, tools |-> tools]
Tool(id) == [id |-> id]
Labware(id) == [id |-> id]
PipetteTipGroup(id) == [id |-> id, row_count |-> 1, column_count |-> 1]

\* a command: its type tag, the symbolic ID it references (None if it
\* references none) and the labware index of its location (0 if it has none)
Command(type, id, index) == [type |-> type, id |-> id, index |-> index]

\* the file at file_path does not exist
NoFile == <<>>

\* [t for r in self.ast.fleet.robots for t in r.tools]
RECURSIVE AllTools(_)
AllTools(robots) ==
    IF robots = <<>> THEN <<>> ELSE Head(robots).tools \o AllTools(Tail(robots))

\* the ids of a list of models
IdsOf(model_list) == {model_list[k].id : k \in DOMAIN model_list}

\* the IDs bound in a tree, by entity kind
Bound(tree) ==
    [robot |-> IdsOf(tree.fleet.robots),
     tool |-> IdsOf(AllTools(tree.fleet.robots)),
     labware |-> IdsOf(tree.fleet.labware),
     pipette_tip_group |-> IdsOf(tree.pipette_tips)]

Called(name, args) == [name |-> name, args |-> args]

\* emit() has not been called
NotEmitted == [returned |-> FALSE]

BuilderIdle ==
    /\ ast = TCodeAST(Metadata("a", None, 0))
    /\ file = NoFile
    /\ op = Called("none", <<>>)
    /\ raised = "none"
    /\ clock = 0
    /\ written = Bound(ast)
    /\ emitted = NotEmitted

\* TCodeScript(metadata, commands)
TCodeScript(metadata, command_list) == [metadata |-> metadata, commands |-> command_list]

\* no script has been read
NoScript == TCodeScript(Metadata(None, None, 0), <<>>)

IoIdle ==
    /\ tcode_script = NoScript
    /\ file_object = NoFile
    /\ read_script = NoScript
    /\ warned = FALSE

\* no dict has been returned
NoData == [type |-> "none"]

MigrateIdle ==
    /\ data = NoData
    /\ new_data = NoData
    /\ migrate_raised = "pending"

\* ValueWithUnits(magnitude=..., units=...)
ValueWithUnits(magnitude, units) ==
    [type |-> "ValueWithUnits", magnitude |-> magnitude, units |-> units]

\* no operation has returned or raised
NoResult == [raised |-> "pending"]

UnitsIdle ==
    /\ vwu_self = ValueWithUnits(0, "m")
    /\ vwu_other = ValueWithUnits(0, "m")
    /\ vwu_operator = "none"
    /\ vwu_result = NoResult

IntegratorIdle ==
    /\ tcode_server_host = None
    /\ incoming_request_host = None
    /\ webhooks = <<>>

\* the migration, the operation on two ValueWithUnits and the integrator
\* are idle
RestIdle == MigrateIdle /\ UnitsIdle /\ IntegratorIdle

ClientInit ==
    /\ pc = "idle"
    /\ call = "none"
    /\ commands = 0
    /\ clean_environment = TRUE
    /\ batch_process = FALSE
    /\ i = 0
    /\ batch_index = 0
    /\ status = NoStatus
    /\ robot_id = 0
    /\ keys = 0
    /\ last_key = "none"
    /\ jog = 0
    /\ pending = "none"
    /\ transform = "None"
    /\ sent = <<>>
    /\ results = <<>>
    /\ checked = 0
    /\ log = <<>>
    /\ outcome = "none"
    /\ retval = "None"
    /\ interrupted = -1
    /\ interrupted_at = "none"
    /\ scheduled = {}
    /\ run_state \in BOOLEAN

EqIdle ==
    /\ eq_verdicts = <<>>
    /\ eq_size = 1
    /\ eq_i = 0
    /\ eq_batch_index = 0
    /\ eq_serial = <<>>
    /\ eq_batched = <<>>
    /\ eq_serial_end = "scheduling"
    /\ eq_batched_end = "scheduling"

Init == ClientInit /\ EqIdle /\ BuilderIdle /\ IoIdle /\ RestIdle

(* ---------------------- the outcome of one request ---------------------- *)

\* What can happen to a blocking step of the client:
\*   "ok"               the request is sent and its response passes raise_for_status
\*   "error"            the request is sent and requests raises (HTTP error status,
\*                      timeout, connection error); the servicer did not apply it
\*   "interrupt_before" KeyboardInterrupt is raised before the request is sent
\*   "interrupt_after"  the request is sent and applied, KeyboardInterrupt is raised
\*                      before the client handles the response
Outcomes == {"ok", "error", "interrupt_before", "interrupt_after"}
Interrupts == {"interrupt_before", "interrupt_after"}

ExceptionOf(out) == IF out = "error" THEN "HTTPError" ELSE "KeyboardInterrupt"

\* requests.<method>(...): the request goes on the wire unless the signal came first
Send(req, out) ==
    /\ sent' = IF out = "interrupt_before" THEN sent ELSE Append(sent, req)
    /\ interrupted' = IF out \in Interrupts /\ interrupted = -1
                      THEN (IF out = "interrupt_before" THEN Len(sent) ELSE Len(sent) + 1)
                      ELSE interrupted
    /\ interrupted_at' = IF out \in Interrupts /\ interrupted = -1 THEN pc ELSE interrupted_at

\* The servicer's side of a request (HTTP surface of the servicer): the schedule
\* keeps the commands whose Result is successful, DELETE /schedule and
\* DELETE /tcode_resolution empty it, PUT /run_state sets the run state.
\* verdicts is the list of result.success the servicer gives to the commands of
\* a scheduling request.
Servicer(req, out, verdicts) ==
    IF out \in {"ok", "interrupt_after"}
    THEN /\ scheduled' =
              CASE req.op \in {"clear_schedule", "clear_tcode_resolution"} -> {}
                [] req.op \in {"schedule_command", "schedule_commands"} /\ req.robot = 0 ->
                       scheduled \cup {req.arg + k - 1 : k \in {j \in 1..req.count : verdicts[j]}}
                [] OTHER -> scheduled
         /\ run_state' = IF req.op = "set_run_state" THEN (req.arg = 1) ELSE run_state
    ELSE UNCHANGED <<scheduled, run_state>>

\* an exception leaves the top-level call
Raise(exception) ==
    /\ pc' = "done"
    /\ outcome' = exception

\* the top-level call returns
Return ==
    /\ pc' = "done"
    /\ outcome' = "returned"

\* control goes on at next; "done" is the return of the top-level call
Goto(next) ==
    /\ pc' = next
    /\ outcome' = IF next = "done" THEN "returned" ELSE outcome

\* A request whose response the client does not look at beyond raise_for_status,
\* outside any try block: on success go on, otherwise the exception propagates.
PlainRequest(here, req, next) ==
    /\ pc = here
    /\ \E out \in Outcomes :
          /\ Send(req, out)
          /\ Servicer(req, out, <<>>)
          /\ IF out = "ok" THEN Goto(next) ELSE Raise(ExceptionOf(out))

(* ------------------------------ run_script ------------------------------ *)

\* mutant: the last, shorter batch is left out
Batched_whole(n, size) ==
    [b \in 1..(n \div size) |-> <<(b - 1) * size + 1, size>>]

\* itertools.batched(script.commands, batch_size): <<first, count>> of each batch
Batched(n, size) ==
    [b \in 1..((n + size - 1) \div size) |->
        <<(b - 1) * size + 1, IF b * size <= n THEN size ELSE n - (b - 1) * size>>]

\* mutant: the scheduling loops never see a Result as unsuccessful
Unsuccessful_never(success) == FALSE

\* `if not rsp.result.success` of the scheduling loops
Unsuccessful(success) == ~success

\* mutant: only the first Result of a batch is looked at
FirstUnsuccessful_head(rsp_list) ==
    IF Len(rsp_list) > 0 /\ Unsuccessful(rsp_list[1]) THEN 1 ELSE 0

\* the `for res in rsp_list` loop: position of the first unsuccessful Result, 0 if none
FirstUnsuccessful(rsp_list) ==
    LET bad == {k \in DOMAIN rsp_list : Unsuccessful(rsp_list[k])}
    IN  IF bad = {} THEN 0 ELSE CHOOSE k \in bad : \A j \in bad : k <= j

\* Responses of PUT /schedule_commands to a batch of count commands: one Result
\* per command, in order; the Results after the first unsuccessful one are
\* either all successful or all unsuccessful.
BatchResponses(count) ==
    { [k \in 1..count |-> IF f = 0 \/ k < f THEN TRUE ELSE IF k = f THEN FALSE ELSE rest] :
          f \in 0..count, rest \in BOOLEAN }

\* where run_script goes once the reset is done (or skipped)
Scheduling(batch) == IF batch THEN "rs_batch" ELSE "rs_serial"

\* mutant: run_script never resets
RunScriptEntry_noreset(clean, batch) == Scheduling(batch)

\* where run_script starts: the reset when clean_environment, else the scheduling
RunScriptEntry(clean, batch) == IF clean THEN "rs_clear_schedule" ELSE Scheduling(batch)

\* mutant: the serial loop stops one command early
SerialDone_early(done, n) == done >= n - 1

\* the serial loop has gone through all of script.commands
SerialDone(done, n) == done = n

\* the batched loop has gone through all batches of script.commands
BatchedDone(done, n, size) == done = Len(Batched(n, size))

\* mutant: the schedule is cleared before raising
OnUnsuccessful_rollback == <<clear_schedule>>

\* requests run_script sends between an unsuccessful scheduling Result and its raise
OnUnsuccessful == <<>>

\* run_script(script, clean_environment, batch_process) is called
CallRunScript ==
    /\ pc = "idle"
    /\ \E n \in ScriptLengths, clean \in BOOLEAN, batch \in BOOLEAN :
          /\ commands' = n
          /\ clean_environment' = clean
          /\ batch_process' = batch
          /\ pc' = RunScriptEntry(clean, batch)
    /\ call' = "run_script"
    /\ UNCHANGED <<i, batch_index, results, checked, status, sent, log, outcome, interrupted,
                   interrupted_at, scheduled, run_state>>
    /\ UNCHANGED teach_vars
    /\ UNCHANGED other_vars

RunScript_ClearSchedule ==
    /\ PlainRequest("rs_clear_schedule", clear_schedule, "rs_clear_labware")
    /\ UNCHANGED <<call, status, log>> /\ UNCHANGED script_vars /\ UNCHANGED teach_vars
    /\ UNCHANGED other_vars

RunScript_ClearLabware ==
    /\ PlainRequest("rs_clear_labware", clear_labware, "rs_clear_tcode_resolution")
    /\ UNCHANGED <<call, status, log>> /\ UNCHANGED script_vars /\ UNCHANGED teach_vars
    /\ UNCHANGED other_vars

RunScript_ClearTcodeResolution ==
    /\ PlainRequest("rs_clear_tcode_resolution", clear_tcode_resolution,
                    "rs_clear_tf_tree_history")
    /\ UNCHANGED <<call, status, log>> /\ UNCHANGED script_vars /\ UNCHANGED teach_vars
    /\ UNCHANGED other_vars

\* clear_tf_tree_history: a 404 is logged as a warning and skipped
RunScript_ClearTfTreeHistory ==
    /\ pc = "rs_clear_tf_tree_history"
    /\ \E out \in Outcomes \cup {"404"} :
          LET o == IF out = "404" THEN "ok" ELSE out IN
          /\ Send(clear_tf_tree_history, o)
          /\ Servicer(clear_tf_tree_history, o, <<>>)
          /\ log' = IF out = "404"
                    THEN Append(log, [level |-> "warning", command_id |-> 0,
                                      message |-> "no clear_history"])
                    ELSE log
          /\ IF o = "ok" THEN Goto("rs_discover_fleet") ELSE Raise(ExceptionOf(o))
    /\ UNCHANGED <<call, status>> /\ UNCHANGED script_vars /\ UNCHANGED teach_vars
    /\ UNCHANGED other_vars

RunScript_DiscoverFleet ==
    /\ PlainRequest("rs_discover_fleet", discover_fleet, Scheduling(batch_process))
    /\ UNCHANGED <<call, status, log>> /\ UNCHANGED script_vars /\ UNCHANGED teach_vars
    /\ UNCHANGED other_vars

\* one iteration of the serial loop: schedule_command and the check of its Result
RunScript_ScheduleCommand ==
    /\ pc = "rs_serial"
    /\ ~SerialDone(i, commands)
    /\ \E out \in Outcomes, success \in BOOLEAN :
          LET req == schedule_command(i + 1) IN
          /\ Servicer(req, out, <<success>>)
          /\ IF out = "ok"
             THEN /\ results' = Append(results, success)
                  /\ checked' = checked + 1
                  /\ IF Unsuccessful(success)
                     THEN /\ sent' = Append(sent, req) \o OnUnsuccessful
                          /\ UNCHANGED <<interrupted, interrupted_at>>
                          /\ Raise("RuntimeError")
                          /\ i' = i
                     ELSE /\ Send(req, out)
                          /\ Goto("rs_serial")
                          /\ i' = i + 1
             ELSE /\ Send(req, out)
                  /\ Raise(ExceptionOf(out))
                  /\ UNCHANGED <<results, checked, i>>
    /\ UNCHANGED <<call, commands, clean_environment, batch_process, batch_index, status, log>>
    /\ UNCHANGED teach_vars
    /\ UNCHANGED other_vars

\* one iteration of the batched loop: schedule_commands and the check of its Results
RunScript_ScheduleCommands ==
    /\ pc = "rs_batch"
    /\ ~BatchedDone(batch_index, commands, batch_size)
    /\ LET command_batch == Batched(commands, batch_size)[batch_index + 1]
           req == schedule_commands(command_batch[1], command_batch[2])
       IN  \E out \in Outcomes, rsp_list \in BatchResponses(command_batch[2]) :
              LET failed == FirstUnsuccessful(rsp_list) IN
              /\ Servicer(req, out, rsp_list)
              /\ IF out = "ok"
                 THEN /\ results' = results \o rsp_list
                      /\ IF failed # 0
                         THEN /\ checked' = checked + failed
                              /\ sent' = Append(sent, req) \o OnUnsuccessful
                              /\ UNCHANGED <<interrupted, interrupted_at>>
                              /\ Raise("RuntimeError")
                              /\ batch_index' = batch_index
                         ELSE /\ checked' = checked + Len(rsp_list)
                              /\ Send(req, out)
                              /\ Goto("rs_batch")
                              /\ batch_index' = batch_index + 1
                 ELSE /\ Send(req, out)
                      /\ Raise(ExceptionOf(out))
                      /\ UNCHANGED <<results, checked, batch_index>>
    /\ UNCHANGED <<call, commands, clean_environment, batch_process, i, status, log>>
    /\ UNCHANGED teach_vars
    /\ UNCHANGED other_vars

\* every command is scheduled: run_script calls execute_run_loop (line 287)
RunScript_ExecuteRunLoop ==
    /\ \/ pc = "rs_serial" /\ SerialDone(i, commands)
       \/ pc = "rs_batch" /\ BatchedDone(batch_index, commands, batch_size)
    /\ Goto("erl_start")
    /\ UNCHANGED <<call, status, sent, log, interrupted, interrupted_at, scheduled, run_state>>
    /\ UNCHANGED script_vars /\ UNCHANGED teach_vars
    /\ UNCHANGED other_vars

(* --------------------------- execute_run_loop --------------------------- *)

\* number of get_status requests sent so far
Polls == Cardinality({k \in DOMAIN sent : sent[k].op = "get_status"})

\* mutant: the drained test is never true
Drained_never(rsp) == FALSE

\* `if status.operation_count == 0`
Drained(rsp) == rsp.operation_count = 0

\* `if not status.result.success`
Failed(rsp) == ~rsp.success

\* _logger.fatal(msg): msg names status.command_id and status.result.message
FatalRecord(rsp) ==
    [level |-> "fatal", command_id |-> rsp.command_id, message |-> rsp.message]

\* A request inside the try block of the run loop: KeyboardInterrupt is caught
\* by the except clause, anything else propagates.
TryRequest(here, req, next) ==
    /\ pc = here
    /\ \E out \in Outcomes :
          /\ Send(req, out)
          /\ Servicer(req, out, <<>>)
          /\ IF out = "ok" THEN Goto(next)
             ELSE IF out = "error" THEN Raise(ExceptionOf(out))
             ELSE Goto("erl_except_pause")

\* execute_run_loop() is called directly
CallExecuteRunLoop ==
    /\ pc = "idle"
    /\ call' = "execute_run_loop"
    /\ Goto("erl_start")
    /\ UNCHANGED <<status, sent, log, interrupted, interrupted_at, scheduled, run_state>>
    /\ UNCHANGED script_vars /\ UNCHANGED teach_vars
    /\ UNCHANGED other_vars

\* line 213: self.set_run_state(True), before the try block
ExecuteRunLoop_Start ==
    /\ PlainRequest("erl_start", set_run_state(TRUE), "erl_poll")
    /\ UNCHANGED <<call, status, log>> /\ UNCHANGED script_vars /\ UNCHANGED teach_vars
    /\ UNCHANGED other_vars

\* lines 216-230: sleep, get_status and the two tests on the response
ExecuteRunLoop_Poll ==
    /\ pc = "erl_poll"
    /\ Polls < MaxPolls
    /\ \E out \in Outcomes, rsp \in GetStatusResponses :
          /\ Send(get_status, out)
          /\ Servicer(get_status, out, <<>>)
          /\ IF out = "ok"
             THEN /\ status' = rsp
                  /\ IF Drained(rsp)
                     THEN Goto("erl_drained_pause") /\ log' = log
                     ELSE IF Failed(rsp)
                     THEN Goto("erl_failed_pause") /\ log' = Append(log, FatalRecord(rsp))
                     ELSE Goto("erl_poll") /\ log' = log
             ELSE /\ UNCHANGED <<status, log>>
                  /\ IF out = "error" THEN Raise(ExceptionOf(out))
                     ELSE Goto("erl_except_pause")
    /\ UNCHANGED call /\ UNCHANGED script_vars /\ UNCHANGED teach_vars
    /\ UNCHANGED other_vars

\* lines 220-221: set_run_state(False); return
ExecuteRunLoop_DrainedPause ==
    /\ TryRequest("erl_drained_pause", set_run_state(FALSE), "done")
    /\ UNCHANGED <<call, status, log>> /\ UNCHANGED script_vars /\ UNCHANGED teach_vars
    /\ UNCHANGED other_vars

\* lines 229-230: set_run_state(False); return
ExecuteRunLoop_FailedPause ==
    /\ TryRequest("erl_failed_pause", set_run_state(FALSE), "done")
    /\ UNCHANGED <<call, status, log>> /\ UNCHANGED script_vars /\ UNCHANGED teach_vars
    /\ UNCHANGED other_vars

\* line 233, in the except clause
ExecuteRunLoop_ExceptPause ==
    /\ PlainRequest("erl_except_pause", set_run_state(FALSE), "erl_except_clear_tcode_resolution")
    /\ UNCHANGED <<call, status, log>> /\ UNCHANGED script_vars /\ UNCHANGED teach_vars
    /\ UNCHANGED other_vars

\* line 234
ExecuteRunLoop_ExceptClearTcodeResolution ==
    /\ PlainRequest("erl_except_clear_tcode_resolution", clear_tcode_resolution,
                    "erl_except_clear_labware")
    /\ UNCHANGED <<call, status, log>> /\ UNCHANGED script_vars /\ UNCHANGED teach_vars
    /\ UNCHANGED other_vars

\* lines 235-236
ExecuteRunLoop_ExceptClearLabware ==
    /\ PlainRequest("erl_except_clear_labware", clear_labware, "done")
    /\ UNCHANGED <<call, status, log>> /\ UNCHANGED script_vars /\ UNCHANGED teach_vars
    /\ UNCHANGED other_vars

(* ------------------------------ teach_point ----------------------------- *)

\* what get_key() can do: return a key, or raise
KeyEvents == Keys \cup {"KeyboardInterrupt", "OSError"}

\* A request inside the try block of teach_point: whatever it raises is held
\* while the finally block runs.
TeachRequest(here, req, next) ==
    /\ pc = here
    /\ \E out \in Outcomes :
          /\ Send(req, out)
          /\ Servicer(req, out, <<TRUE>>)
          /\ IF out = "ok"
             THEN Goto(next) /\ pending' = pending
             ELSE Goto("tp_finally") /\ pending' = ExceptionOf(out)

\* the robot named by the request of the finally block
ExitRobot(robot) == robot

\* mutant: teach_point returns its initial transform
TaughtTransform_initial(response_transform) == "None"

\* the value teach_point returns: the transform of the exit_teach_mode response
TaughtTransform(response_transform) == response_transform

\* teach_point(robot_id) is called
CallTeachPoint ==
    /\ pc = "idle"
    /\ \E robot \in RobotIds : robot_id' = robot
    /\ call' = "teach_point"
    /\ Goto("tp_enter")
    /\ UNCHANGED <<keys, last_key, jog, pending, transform, retval>>
    /\ UNCHANGED <<status, sent, log, interrupted, interrupted_at, scheduled, run_state>>
    /\ UNCHANGED script_vars
    /\ UNCHANGED other_vars

\* lines 151-156
TeachPoint_Enter ==
    /\ TeachRequest("tp_enter", enter_teach_mode(robot_id), "tp_key")
    /\ UNCHANGED <<robot_id, keys, last_key, jog, transform, retval>>
    /\ UNCHANGED <<call, status, log>> /\ UNCHANGED script_vars
    /\ UNCHANGED other_vars

\* lines 160-186: get_key() and the match on the key (the jog requests of the
\* "w" and "s" cases are the next two steps)
TeachPoint_GetKey ==
    /\ pc = "tp_key"
    /\ keys < MaxKeys
    /\ keys' = keys + 1
    /\ \E event \in KeyEvents :
          /\ last_key' = event
          /\ interrupted' = IF event = "KeyboardInterrupt" /\ interrupted = -1
                            THEN Len(sent) ELSE interrupted
          /\ interrupted_at' = IF event = "KeyboardInterrupt" /\ interrupted = -1
                               THEN pc ELSE interrupted_at
          /\ CASE event = "w" -> Goto("tp_jog_schedule") /\ jog' = JogStep /\ pending' = pending
               [] event = "s" -> Goto("tp_jog_schedule") /\ jog' = -JogStep /\ pending' = pending
               [] event \in {"esc", "q"} -> Goto("tp_finally") /\ UNCHANGED <<jog, pending>>
               [] event \in {"KeyboardInterrupt", "OSError"} ->
                      Goto("tp_finally") /\ pending' = event /\ jog' = jog
               [] OTHER -> Goto("tp_key") /\ UNCHANGED <<jog, pending>>
    /\ UNCHANGED <<robot_id, transform, retval>>
    /\ UNCHANGED <<call, status, sent, log, scheduled, run_state>> /\ UNCHANGED script_vars
    /\ UNCHANGED other_vars

\* lines 163-170 and 173-180: schedule_command of the relative MOVE_TO_JOINT_POSE
TeachPoint_JogSchedule ==
    /\ TeachRequest("tp_jog_schedule", jog_command(robot_id, jog), "tp_jog_run")
    /\ UNCHANGED <<robot_id, keys, last_key, jog, transform, retval>>
    /\ UNCHANGED <<call, status, log>> /\ UNCHANGED script_vars
    /\ UNCHANGED other_vars

\* mutant: the jog is followed by a pause
TeachPoint_JogRun_pause ==
    /\ TeachRequest("tp_jog_run", set_run_state(FALSE), "tp_key")
    /\ UNCHANGED <<robot_id, keys, last_key, jog, transform, retval>>
    /\ UNCHANGED <<call, status, log>> /\ UNCHANGED script_vars
    /\ UNCHANGED other_vars

\* lines 171 and 181: set_run_state(True)
TeachPoint_JogRun ==
    /\ TeachRequest("tp_jog_run", set_run_state(TRUE), "tp_key")
    /\ UNCHANGED <<robot_id, keys, last_key, jog, transform, retval>>
    /\ UNCHANGED <<call, status, log>> /\ UNCHANGED script_vars
    /\ UNCHANGED other_vars

\* lines 187-199: the finally block, then the exception in flight or the return.
\* The block is entered and its request issued in one step.
TeachPoint_Finally ==
    /\ pc = "tp_finally"
    /\ \E out \in Outcomes \ {"interrupt_before"}, rsp \in Transforms :
          LET req == exit_teach_mode(ExitRobot(robot_id)) IN
          /\ Send(req, out)
          /\ Servicer(req, out, <<>>)
          /\ IF out = "ok"
             THEN /\ transform' = rsp
                  /\ IF pending = "none"
                     THEN Return /\ retval' = TaughtTransform(rsp)
                     ELSE Raise(pending) /\ retval' = retval
             ELSE /\ Raise(ExceptionOf(out))
                  /\ UNCHANGED <<transform, retval>>
    /\ UNCHANGED <<robot_id, keys, last_key, jog, pending>>
    /\ UNCHANGED <<call, status, log>> /\ UNCHANGED script_vars
    /\ UNCHANGED other_vars

(* ---------------------------- specification ----------------------------- *)

Next ==
    \/ CallRunScript
    \/ RunScript_ClearSchedule
    \/ RunScript_ClearLabware
    \/ RunScript_ClearTcodeResolution
    \/ RunScript_ClearTfTreeHistory
    \/ RunScript_DiscoverFleet
    \/ RunScript_ScheduleCommand
    \/ RunScript_ScheduleCommands
    \/ RunScript_ExecuteRunLoop
    \/ CallExecuteRunLoop
    \/ ExecuteRunLoop_Start
    \/ ExecuteRunLoop_Poll
    \/ ExecuteRunLoop_DrainedPause
    \/ ExecuteRunLoop_FailedPause
    \/ ExecuteRunLoop_ExceptPause
    \/ ExecuteRunLoop_ExceptClearTcodeResolution
    \/ ExecuteRunLoop_ExceptClearLabware
    \/ CallTeachPoint
    \/ TeachPoint_Enter
    \/ TeachPoint_GetKey
    \/ TeachPoint_JogSchedule
    \/ TeachPoint_JogRun
    \/ TeachPoint_Finally

Spec == Init /\ [][Next]_vars

(* ------------- serial and batched scheduling, side by side --------------- *)

\* The two scheduling loops of run_script on one command list, against a
\* servicer that gives command k the Result eq_verdicts[k] in either mode and
\* answers a batch with one Result per command, in order.  The batched loop runs
\* with batch size eq_size in place of batch_size.

EqInit ==
    /\ ClientInit
    /\ BuilderIdle
    /\ IoIdle
    /\ RestIdle
    /\ eq_verdicts \in UNION {[1..n -> BOOLEAN] : n \in 1..MaxLen}
    /\ eq_size \in 1..Len(eq_verdicts)
    /\ eq_i = 0
    /\ eq_batch_index = 0
    /\ eq_serial = <<>>
    /\ eq_batched = <<>>
    /\ eq_serial_end = "scheduling"
    /\ eq_batched_end = "scheduling"

\* one iteration of the serial loop (lines 256-264), or its exit
EqScheduleCommand ==
    /\ eq_serial_end = "scheduling"
    /\ IF SerialDone(eq_i, Len(eq_verdicts))
       THEN /\ eq_serial_end' = "scheduled"
            /\ UNCHANGED <<eq_i, eq_serial>>
       ELSE LET success == eq_verdicts[eq_i + 1] IN
            /\ eq_serial' = Append(eq_serial, success)
            /\ IF Unsuccessful(success)
               THEN eq_serial_end' = "RuntimeError" /\ eq_i' = eq_i
               ELSE eq_serial_end' = "scheduling" /\ eq_i' = eq_i + 1
    /\ UNCHANGED <<eq_verdicts, eq_size, eq_batch_index, eq_batched, eq_batched_end>>
    /\ UNCHANGED eq_other_vars

\* one iteration of the batched loop (lines 268-285), or its exit
EqScheduleCommands ==
    /\ eq_batched_end = "scheduling"
    /\ IF BatchedDone(eq_batch_index, Len(eq_verdicts), eq_size)
       THEN /\ eq_batched_end' = "scheduled"
            /\ UNCHANGED <<eq_batch_index, eq_batched>>
       ELSE LET command_batch == Batched(Len(eq_verdicts), eq_size)[eq_batch_index + 1]
                rsp_list == SubSeq(eq_verdicts, command_batch[1],
                                   command_batch[1] + command_batch[2] - 1)
            IN  /\ eq_batched' = eq_batched \o rsp_list
                /\ IF FirstUnsuccessful(rsp_list) # 0
                   THEN eq_batched_end' = "RuntimeError" /\ eq_batch_index' = eq_batch_index
                   ELSE eq_batched_end' = "scheduling" /\ eq_batch_index' = eq_batch_index + 1
    /\ UNCHANGED <<eq_verdicts, eq_size, eq_i, eq_serial, eq_serial_end>>
    /\ UNCHANGED eq_other_vars

EqNext ==
    \/ EqScheduleCommand
    \/ EqScheduleCommands

SpecEquiv == EqInit /\ [][EqNext]_vars

(* ------------------------- notions used by the claims -------------------- *)

Last(seq) == seq[Len(seq)]

\* positions of sent holding a request of one of the client methods ops
Sent(ops) == {k \in DOMAIN sent : sent[k].op \in ops}

SchedulingOps == {"schedule_command", "schedule_commands"}
ResetOps == {"clear_schedule", "clear_labware", "clear_tcode_resolution", "discover_fleet"}

\* positions of results holding an unsuccessful Result
Unsuccessfuls == {k \in DOMAIN results : ~results[k]}

\* number of script commands transmitted so far (they go out in script order)
Transmitted ==
    LET s == Sent(SchedulingOps)
    IN  IF s = {} THEN 0
        ELSE LET k == CHOOSE k \in s : \A j \in s : j <= k
             IN  sent[k].arg + sent[k].count - 1

\* the call is in execute_run_loop, or ended in it
InRunLoop == call \in {"run_script", "execute_run_loop"}

\* every request of the call so far completed and no signal was delivered
Undisturbed == interrupted = -1 /\ outcome \notin {"HTTPError", "KeyboardInterrupt"}

\* the last poll reported an unsuccessful Result
FailedPoll == InRunLoop /\ status # NoStatus /\ ~status.success

\* the last poll reported operation_count == 0
DrainedPoll == InRunLoop /\ status # NoStatus /\ status.operation_count = 0

(* -------------------------------- claims -------------------------------- *)

\* C1: after a get_status poll whose result.success is false, whatever its
\* operation_count, a fatal record naming the command id and the message has
\* been logged, and the call ends by sending set_run_state(false) and returning,
\* with no other request after the poll.  (Stated for runs in which no request
\* fails and no signal arrives.)
C1_FailedPollIsSurfaced ==
    (FailedPoll /\ Undisturbed) =>
        /\ log # <<>>
        /\ Last(log) = [level |-> "fatal", command_id |-> status.command_id,
                        message |-> status.message]
        /\ IF pc = "done"
           THEN /\ outcome = "returned"
                /\ Last(sent) = set_run_state(FALSE)
                /\ sent[Len(sent) - 1] = get_status
           ELSE Last(sent) = get_status

\* C2: when a KeyboardInterrupt is delivered while execute_run_loop is executing,
\* the requests sent after it are exactly set_run_state(false),
\* clear_tcode_resolution, clear_labware, and the call returns normally.
C2_InterruptPausesAndClears ==
    (InRunLoop /\ interrupted # -1 /\ pc = "done"
       /\ interrupted_at \in {"erl_start", "erl_poll", "erl_drained_pause", "erl_failed_pause",
                              "erl_except_pause", "erl_except_clear_tcode_resolution",
                              "erl_except_clear_labware"}) =>
        /\ outcome = "returned"
        /\ SubSeq(sent, interrupted + 1, Len(sent)) =
               <<set_run_state(FALSE), clear_tcode_resolution, clear_labware>>

\* C3: in run_script, once an unsuccessful scheduling Result has been received
\* the call has raised RuntimeError, and the last request sent is the scheduling
\* request that carried the failing command: nothing is transmitted after it.
C3_FailFastScheduling ==
    (call = "run_script" /\ Unsuccessfuls # {}) =>
        /\ pc = "done"
        /\ outcome = "RuntimeError"
        /\ Last(sent).op \in SchedulingOps
        /\ \E k \in Unsuccessfuls :
              /\ \A j \in Unsuccessfuls : k <= j
              /\ Last(sent).arg <= k
              /\ k <= Last(sent).arg + Last(sent).count - 1

\* C3 witness: the second command of a longer serial script is refused
C3_Witness ==
    /\ call = "run_script" /\ ~batch_process
    /\ outcome = "RuntimeError"
    /\ i = 1 /\ commands > 2
    /\ results = <<TRUE, FALSE>>

\* C4: in run_script, set_run_state(true) and get_status are sent only when
\* every command of the script has been transmitted and has a successful
\* Result, after every scheduling request; with an unsuccessful scheduling
\* Result neither is ever sent.
C4_RunStartsAfterScheduling ==
    call = "run_script" =>
        LET running == {k \in DOMAIN sent : sent[k] = set_run_state(TRUE)
                                            \/ sent[k] = get_status}
        IN  /\ running # {} =>
                  /\ Transmitted = commands
                  /\ Len(results) = commands
                  /\ checked = commands
                  /\ Unsuccessfuls = {}
                  /\ \A r \in running : \A k \in Sent(SchedulingOps) : k < r
            /\ Unsuccessfuls # {} => running = {}

\* C4 witness: the run of a script of more than one batch has been started
C4_Witness ==
    /\ call = "run_script"
    /\ commands > batch_size
    /\ Len(results) = commands
    /\ \E k \in DOMAIN sent : sent[k] = get_status

\* both schedulings of the command list have ended
EqEnded == eq_serial_end # "scheduling" /\ eq_batched_end # "scheduling"

\* position of the first command the servicer refuses, 0 if it accepts all
EqFirstRefused ==
    LET bad == {k \in DOMAIN eq_verdicts : ~eq_verdicts[k]}
    IN  IF bad = {} THEN 0 ELSE CHOOSE k \in bad : \A j \in bad : k <= j

\* C5 as stated: scheduled one at a time or in batches of eq_size, the command
\* list yields the same sequence of per-command Results.
C5_Original == EqEnded => eq_serial = eq_batched

\* C5 amended: when every command gets a successful Result the two sequences
\* are equal (one Result per command); when a command is refused both modes
\* raise, the serial sequence ends with the first unsuccessful Result, and it
\* is a prefix of the batched sequence, which goes on to the end of the batch
\* that holds the refused command.
C5_SerialIsPrefixOfBatched ==
    EqEnded =>
        IF EqFirstRefused = 0
        THEN /\ eq_serial_end = "scheduled" /\ eq_batched_end = "scheduled"
             /\ eq_serial = eq_verdicts
             /\ eq_batched = eq_verdicts
        ELSE /\ eq_serial_end = "RuntimeError" /\ eq_batched_end = "RuntimeError"
             /\ eq_serial = SubSeq(eq_verdicts, 1, EqFirstRefused)
             /\ Len(eq_batched) >= EqFirstRefused
             /\ SubSeq(eq_batched, 1, EqFirstRefused) = eq_serial
             /\ \/ Len(eq_batched) = Len(eq_verdicts)
                \/ /\ Len(eq_batched) % eq_size = 0
                   /\ Len(eq_batched) - eq_size < EqFirstRefused
             /\ eq_batched = SubSeq(eq_verdicts, 1, Len(eq_batched))

\* C5 witness: a command in the middle of the second batch is refused
C5_Witness ==
    /\ EqEnded
    /\ eq_size = 2
    /\ eq_verdicts = <<TRUE, TRUE, FALSE, TRUE>>
    /\ eq_serial = <<TRUE, TRUE, FALSE>>
    /\ eq_batched = <<TRUE, TRUE, FALSE, TRUE>>

\* C6: once a poll has reported operation_count == 0 the loop has left its
\* polling position and sends no further get_status, so the number of polls
\* stays the k of that poll; when nothing disturbs the call it then ends by
\* sending set_run_state(false) and returning.
C6_NoPollAfterDrained ==
    /\ [](DrainedPoll =>
            /\ pc # "erl_poll"
            /\ Polls >= 1
            /\ (pc = "done" /\ Undisturbed) =>
                  /\ outcome = "returned"
                  /\ Last(sent) = set_run_state(FALSE)
                  /\ sent[Len(sent) - 1] = get_status)
    /\ [][DrainedPoll => Polls' = Polls]_vars

\* C6 witness: the second poll is the first to report operation_count == 0,
\* and the loop has returned after two polls
C6_Witness ==
    /\ DrainedPoll /\ status.success
    /\ Polls = 2
    /\ pc = "done" /\ outcome = "returned"

\* C7 as stated: with clean_environment the reset requests precede the first
\* scheduling request; without it none of clear_schedule, clear_labware,
\* clear_tcode_resolution, discover_fleet is sent at all.
C7_Original ==
    call = "run_script" =>
        /\ (clean_environment /\ Sent(SchedulingOps) # {}) =>
              /\ Len(sent) >= 5
              /\ SubSeq(sent, 1, 5) = <<clear_schedule, clear_labware, clear_tcode_resolution,
                                        clear_tf_tree_history, discover_fleet>>
        /\ ~clean_environment => Sent(ResetOps) = {}

\* C7 amended: with clean_environment, once run_script is past its reset (it
\* schedules, or runs) the requests clear_schedule, clear_labware,
\* clear_tcode_resolution, clear_tf_tree_history, discover_fleet are the first
\* five sent and each has completed; without clean_environment none of the
\* reset requests is sent before the run is started by set_run_state(true).
C7_ResetBeforeScheduling ==
    call = "run_script" =>
        /\ (clean_environment
              /\ (Sent(SchedulingOps) # {} \/ pc \in {"rs_serial", "rs_batch", "erl_start"})) =>
              /\ Len(sent) >= 5
              /\ SubSeq(sent, 1, 5) = <<clear_schedule, clear_labware, clear_tcode_resolution,
                                        clear_tf_tree_history, discover_fleet>>
              /\ \A k \in Sent(SchedulingOps) : k > 5
        /\ ~clean_environment =>
              \A k \in Sent(ResetOps) : \E j \in 1..(k - 1) : sent[j] = set_run_state(TRUE)

\* C7 witness: a clean run has sent its first scheduling request
C7_Witness ==
    /\ call = "run_script" /\ clean_environment
    /\ Len(sent) = 6
    /\ sent[6].op \in SchedulingOps

C9_NoRollbackOfEarlierBatches ==
    (call = "run_script" /\ batch_process /\ Unsuccessfuls # {}) =>
        /\ outcome = "RuntimeError"
        /\ Last(sent).op = "schedule_commands"
        /\ \A k \in 1..(batch_index * batch_size) : k \in scheduled

\* C9 witness: the second batch is refused after the first was accepted
C9_Witness ==
    /\ call = "run_script" /\ batch_process
    /\ outcome = "RuntimeError"
    /\ batch_index = 1
    /\ Cardinality(scheduled) >= batch_size

C11_EveryRequestHasTimeout ==
    \A k \in DOMAIN sent : sent[k].timeout # NoTimeout

(* ------------------ TCodeScriptBuilder: lookups and JSON ---------------- *)

\* the operations called on one builder in a session
MaxOps == 4

\* datetime.datetime.now().isoformat(): the instant it is called at
now == clock

\* generate_id(): an ID never handed out before
generate_id == "GEN-" \o ToString(clock)

Found(model) == [raised |-> "none", model |-> model]
NotFound(exception) == [raised |-> exception, model |-> [id |-> None]]

\* _find_model_by_id (mutant): a miss yields a model made up from the id
find_model_by_id_lenient(model_id, model_list) ==
    LET models == SelectSeq(model_list, LAMBDA model : model.id = model_id) IN
    IF Len(models) = 0 THEN Found([id |-> model_id]) ELSE Found(models[1])

\* _find_model_by_id: the model of model_list with the given id
find_model_by_id(model_id, model_list) ==
    LET models == SelectSeq(model_list, LAMBDA model : model.id = model_id) IN
    IF Len(models) = 1 THEN Found(models[1])
    ELSE IF Len(models) = 0 THEN NotFound("IdNotFoundError")
    ELSE NotFound("AssertionError")

\* _find_robot_by_id (mutant): the fleet's first robot stands for any robot
find_robot_by_id_first(id) ==
    IF ast.fleet.robots = <<>> THEN NotFound("IdNotFoundError")
    ELSE Found(Head(ast.fleet.robots))

\* _find_robot_by_id
find_robot_by_id(id) == find_model_by_id(id, ast.fleet.robots)

find_labware_by_id(labware_id) == find_model_by_id(labware_id, ast.fleet.labware)
find_tool_by_id(tool_id) == find_model_by_id(tool_id, AllTools(ast.fleet.robots))
find_pipette_tip_group_by_id(pipette_tip_group_id) ==
    find_model_by_id(pipette_tip_group_id, ast.pipette_tips)

\* the try block of an add_* operation (mutant): a found model is no obstacle
IfExists_register(lookup) ==
    IF lookup \in {"none", "IdNotFoundError"} THEN "register" ELSE lookup

\* the try block of an add_* operation, given how the lookup of the new ID
\* ended: a found model raises IdExistsError, IdNotFoundError is caught and
\* the model is registered, any other exception propagates
IfExists(lookup) ==
    IF lookup = "none" THEN "IdExistsError"
    ELSE IF lookup = "IdNotFoundError" THEN "register"
    ELSE lookup

\* _location_as_labware_index (mutant): the index is checked against the grid
location_as_labware_index_checked(labware_id, index) ==
    IF find_labware_by_id(labware_id).raised # "none"
    THEN [raised |-> find_labware_by_id(labware_id).raised, labware_id |-> None,
          location_index |-> 0]
    ELSE IF index < 0 \/ index >= 8 * 12
    THEN [raised |-> "ValidationError", labware_id |-> None, location_index |-> 0]
    ELSE [raised |-> "none", labware_id |-> labware_id, location_index |-> index]

\* _location_as_labware_index: LocationAsLabwareIndex(labware_id, index) once
\* the labware is found
location_as_labware_index(labware_id, index) ==
    IF find_labware_by_id(labware_id).raised # "none"
    THEN [raised |-> find_labware_by_id(labware_id).raised, labware_id |-> None,
          location_index |-> 0]
    ELSE [raised |-> "none", labware_id |-> labware_id, location_index |-> index]

\* JSON values
JsonNull == <<"null">>
JsonString(str) == <<"string", str>>
JsonNumber(n) == <<"number", n>>
JsonOptional(value) == IF value = None THEN JsonNull ELSE JsonString(value)
JsonArray(Dump(_), list) == [k \in 1..Len(list) |-> Dump(list[k])]
\* the value of a key of a JSON object
JsonGet(object, key) ==
    LET k == CHOOSE k \in 1..Len(object) : object[k][1] = key IN object[k][2]
FromOptional(json) == IF json = JsonNull THEN None ELSE json[2]
FromArray(Validate(_), json) == [k \in 1..Len(json) |-> Validate(json[k])]

DumpMetadata(metadata) ==
    << <<"name", JsonString(metadata.name)>>,
       <<"description", JsonOptional(metadata.description)>>,
       <<"timestamp", JsonString(metadata.timestamp)>>,
       <<"tcode_api_version", JsonString(metadata.tcode_api_version)>> >>

ValidateMetadata(json) ==
    [name |-> JsonGet(json, "name")[2],
     description |-> FromOptional(JsonGet(json, "description")),
     timestamp |-> JsonGet(json, "timestamp")[2],
     tcode_api_version |-> JsonGet(json, "tcode_api_version")[2]]

DumpCommand(command) ==
    << <<"type", JsonString(command.type)>>,
       <<"id", JsonOptional(command.id)>>,
       <<"index", JsonNumber(command.index)>> >>

ValidateCommand(json) ==
    Command(JsonGet(json, "type")[2], FromOptional(JsonGet(json, "id")),
            JsonGet(json, "index")[2])

DumpModelWithId(model) == << <<"id", JsonString(model.id)>> >>
ValidateModelWithId(json) == [id |-> JsonGet(json, "id")[2]]

DumpRobot(robot) ==
    << <<"id", JsonString(robot.id)>>,
       <<"tools", JsonArray(DumpModelWithId, robot.tools)>> >>
ValidateRobot(json) ==
    Robot(JsonGet(json, "id")[2], FromArray(ValidateModelWithId, JsonGet(json, "tools")))

DumpPipetteTipGroup(group) ==
    << <<"id", JsonString(group.id)>>,
       <<"row_count", JsonNumber(group.row_count)>>,
       <<"column_count", JsonNumber(group.column_count)>> >>
ValidatePipetteTipGroup(json) ==
    [id |-> JsonGet(json, "id")[2], row_count |-> JsonGet(json, "row_count")[2],
     column_count |-> JsonGet(json, "column_count")[2]]

\* self.ast.model_dump_json()
ast_model_dump_json(tree) ==
    << <<"metadata", DumpMetadata(tree.metadata)>>,
       <<"fleet", << <<"robots", JsonArray(DumpRobot, tree.fleet.robots)>>,
                     <<"labware", JsonArray(DumpModelWithId, tree.fleet.labware)>> >> >>,
       <<"pipette_tips", JsonArray(DumpPipetteTipGroup, tree.pipette_tips)>>,
       <<"tcode", JsonArray(DumpCommand, tree.tcode)>> >>

\* TCodeAST.model_validate_json(data)
ast_model_validate_json(json) ==
    [metadata |-> ValidateMetadata(JsonGet(json, "metadata")),
     fleet |-> [robots |-> FromArray(ValidateRobot, JsonGet(JsonGet(json, "fleet"), "robots")),
                labware |-> FromArray(ValidateModelWithId,
                                      JsonGet(JsonGet(json, "fleet"), "labware"))],
     pipette_tips |-> FromArray(ValidatePipetteTipGroup, JsonGet(json, "pipette_tips")),
     tcode |-> FromArray(ValidateCommand, JsonGet(json, "tcode"))]

(* --------------------- TCodeScriptBuilder: operations ------------------- *)

\* one more operation is called on the builder
Call(name, args) ==
    /\ clock < MaxOps
    /\ clock' = clock + 1
    /\ op' = Called(name, args)

\* the operation raises before it has changed anything
\* mutant: the commands are dropped when an operation raises
Raises_dropping(exception) == raised' = exception /\ ast' = [ast EXCEPT !.tcode = <<>>]

Raises(exception) == raised' = exception /\ ast' = ast

\* self.add_command(command), after which the operation returns
AddCommand(command) ==
    /\ raised' = "none"
    /\ ast' = [ast EXCEPT !.tcode = Append(@, command)]

\* robots a caller may pass: without tools, or carrying one
Robots == {Robot(id, tools) : id \in Ids, tools \in {<<>>, <<Tool("ID-0")>>}}

\* commands a caller may pass to add_command directly
Commands == {Command("PICK_UP_PIPETTE_TIP", id, 1) : id \in Ids}

BuilderInit ==
    /\ \E name \in Names, description \in Descriptions \cup {None} :
          /\ ast = TCodeAST(Metadata(name, description, 0))
          /\ op = Called("__init__", <<name, description>>)
    /\ file = NoFile
    /\ raised = "none"
    /\ clock = 0
    /\ written = Bound(ast)
    /\ emitted = NotEmitted
    /\ ClientInit
    /\ ~run_state
    /\ EqIdle
    /\ IoIdle
    /\ RestIdle

\* the script emit() returned once self.ast is bound to a new tree: it keeps
\* the objects it shared with the old tree, as they are now
Detached ==
    IF emitted.returned /\ emitted.shared
    THEN [emitted EXCEPT !.shared = FALSE, !.script = ast]
    ELSE emitted

\* reset (mutant): only the metadata and the command list are renewed
reset_metadata_only ==
    \E name \in Names \cup {None}, description \in Descriptions \cup {None} :
        /\ Call("reset", <<name, description>>)
        /\ raised' = "none"
        /\ ast' = [ast EXCEPT
                     !.metadata = Metadata(IF name = None THEN ast.metadata.name ELSE name,
                                           description, now),
                     !.tcode = <<>>]
        /\ UNCHANGED <<file, written, emitted>>
        /\ UNCHANGED builder_other_vars

\* reset(name, description), lines 56-71
reset ==
    \E name \in Names \cup {None}, description \in Descriptions \cup {None} :
        /\ Call("reset", <<name, description>>)
        /\ raised' = "none"
        /\ ast' = TCodeAST(Metadata(IF name = None THEN ast.metadata.name ELSE name,
                                    description, now))
        /\ emitted' = Detached
        /\ UNCHANGED <<file, written>>
        /\ UNCHANGED builder_other_vars

\* set_up_from_file (mutant): only the commands of the file are taken over
set_up_from_file_tcode_only ==
    /\ Call("set_up_from_file", <<>>)
    /\ IF file = NoFile
       THEN Raises("FileNotFoundError")
       ELSE /\ raised' = "none"
            /\ ast' = [ast EXCEPT !.tcode = ast_model_validate_json(file).tcode]
    /\ UNCHANGED <<file, written, emitted>>
    /\ UNCHANGED builder_other_vars

\* set_up_from_file(file_path), lines 77-87 with load_tcode_json_file, lines 17-32
set_up_from_file ==
    /\ Call("set_up_from_file", <<>>)
    /\ IF file = NoFile
       THEN Raises("FileNotFoundError") /\ UNCHANGED emitted
       ELSE /\ raised' = "none"
            /\ ast' = ast_model_validate_json(file)
            /\ emitted' = Detached
    /\ UNCHANGED <<file, written>>
    /\ UNCHANGED builder_other_vars

\* write_to_file(file_path, overwrite), lines 89-102
write_to_file ==
    \E overwrite \in BOOLEAN :
        /\ Call("write_to_file", <<overwrite>>)
        /\ IF file # NoFile /\ ~overwrite
           THEN Raises("RuntimeError") /\ UNCHANGED <<file, written, emitted>>
           ELSE /\ raised' = "none"
                /\ ast' = [ast EXCEPT !.metadata.timestamp = now]
                /\ file' = ast_model_dump_json(ast')
                /\ written' = Bound(ast)
        /\ UNCHANGED emitted
        /\ UNCHANGED builder_other_vars

\* add_command(command), lines 171-173
add_command ==
    \E command \in Commands :
        /\ Call("add_command", <<command>>)
        /\ AddCommand(command)
        /\ UNCHANGED <<file, written, emitted>>
        /\ UNCHANGED builder_other_vars

\* add_labware(labware), lines 175-186
add_labware ==
    \E labware \in {Labware(id) : id \in Ids} :
        LET try == IfExists(find_labware_by_id(labware.id).raised) IN
        /\ Call("add_labware", <<labware.id>>)
        /\ IF try = "register"
           THEN /\ raised' = "none"
                /\ ast' = [ast EXCEPT !.fleet.labware = Append(@, labware)]
           ELSE Raises(try)
        /\ UNCHANGED <<file, written, emitted>>
        /\ UNCHANGED builder_other_vars

\* add_robot(robot), lines 188-201
add_robot ==
    \E robot \in Robots :
        LET try == IfExists(find_robot_by_id(robot.id).raised) IN
        /\ Call("add_robot", <<robot.id, Len(robot.tools)>>)
        /\ IF Len(robot.tools) > 0
           THEN Raises("NotImplementedError")
           ELSE IF try = "register"
           THEN /\ raised' = "none"
                /\ ast' = [ast EXCEPT !.fleet.robots = Append(@, robot)]
           ELSE Raises(try)
        /\ UNCHANGED <<file, written, emitted>>
        /\ UNCHANGED builder_other_vars

\* position of the robot with the given id in the fleet
RobotIndex(id) == CHOOSE k \in 1..Len(ast.fleet.robots) : ast.fleet.robots[k].id = id

\* add_tool(robot_id, tool), lines 203-213
add_tool ==
    \E id \in Ids, tool \in {Tool(id) : id \in Ids} :
        LET try == IfExists(find_tool_by_id(tool.id).raised)
            robot == find_robot_by_id(id)
        IN  /\ Call("add_tool", <<id, tool.id>>)
            /\ IF try # "register"
               THEN Raises(try)
               ELSE IF robot.raised # "none"
               THEN Raises(robot.raised)
               ELSE /\ raised' = "none"
                    /\ ast' = [ast EXCEPT !.fleet.robots[RobotIndex(robot.model.id)].tools =
                                              Append(@, tool)]
            /\ UNCHANGED <<file, written, emitted>>
            /\ UNCHANGED builder_other_vars

\* add_pipette_tip_group(pipette_tip_group), lines 215-225
add_pipette_tip_group ==
    \E pipette_tip_group \in {PipetteTipGroup(id) : id \in Ids} :
        LET try == IfExists(find_pipette_tip_group_by_id(pipette_tip_group.id).raised) IN
        /\ Call("add_pipette_tip_group", <<pipette_tip_group.id>>)
        /\ IF try = "register"
           THEN /\ raised' = "none"
                /\ ast' = [ast EXCEPT !.pipette_tips = Append(@, pipette_tip_group)]
           ELSE Raises(try)
        /\ UNCHANGED <<file, written, emitted>>
        /\ UNCHANGED builder_other_vars

\* goto_labware_index(labware_id, labware_index), lines 294-302;
\* calibrate_labware_well_depth, pick_up_pipette_tip and put_down_pipette_tip
\* build their command the same way
goto_labware_index ==
    \E labware_id \in Ids, labware_index \in Indices :
        LET location == location_as_labware_index(labware_id, labware_index) IN
        /\ Call("goto_labware_index", <<labware_id, labware_index>>)
        /\ IF location.raised # "none"
           THEN Raises(location.raised)
           ELSE AddCommand(Command("GOTO", location.labware_id, location.location_index))
        /\ UNCHANGED <<file, written, emitted>>
        /\ UNCHANGED builder_other_vars

\* pause(), lines 304-306; the other wrappers whose command references no
\* ID (aspirate, dispense, comment, return_tool, wait, ...) have this shape
pause ==
    /\ Call("pause", <<>>)
    /\ AddCommand(Command("PAUSE", None, 0))
    /\ UNCHANGED <<file, written, emitted>>
    /\ UNCHANGED builder_other_vars

\* remove_plate_lid(labware_id), lines 320-327; replace_plate_lid, lines
\* 329-332, has this shape
remove_plate_lid ==
    \E labware_id \in Ids :
        /\ Call("remove_plate_lid", <<labware_id>>)
        /\ AddCommand(Command("REMOVE_PLATE_LID", labware_id, 0))
        /\ UNCHANGED <<file, written, emitted>>
        /\ UNCHANGED builder_other_vars

\* retrieve_pipette_tip_group(pipette_tip_group_id, make_new_group), lines 334-363
retrieve_pipette_tip_group ==
    \E pipette_tip_group_id \in Ids \cup {None}, make_new_group \in BOOLEAN :
        LET id == IF make_new_group /\ pipette_tip_group_id = None
                  THEN generate_id ELSE pipette_tip_group_id
            lookup == find_pipette_tip_group_by_id(id).raised
        IN  /\ Call("retrieve_pipette_tip_group", <<pipette_tip_group_id, make_new_group>>)
            /\ IF make_new_group
               THEN IF IfExists(lookup) = "register"
                    THEN /\ raised' = "none"
                         /\ ast' = [ast EXCEPT
                                      !.pipette_tips = Append(@, PipetteTipGroup(id)),
                                      !.tcode = Append(@, Command("RETRIEVE_PIPETTE_TIP_GROUP",
                                                                  id, 0))]
                    ELSE Raises(IfExists(lookup))
               ELSE IF pipette_tip_group_id = None
                    THEN Raises("ValueError")
                    ELSE IF lookup # "none"
                    THEN Raises(lookup)
                    ELSE AddCommand(Command("RETRIEVE_PIPETTE_TIP_GROUP", id, 0))
            /\ UNCHANGED <<file, written, emitted>>
            /\ UNCHANGED builder_other_vars

\* retrieve_tool(tool_id), lines 369-373
retrieve_tool ==
    \E tool_id \in Ids :
        LET tool == find_tool_by_id(tool_id) IN
        /\ Call("retrieve_tool", <<tool_id>>)
        /\ IF tool.raised # "none"
           THEN Raises(tool.raised)
           ELSE AddCommand(Command("RETRIEVE_TOOL", tool.model.id, 0))
        /\ UNCHANGED <<file, written, emitted>>
        /\ UNCHANGED builder_other_vars

BuilderNext ==
    \/ reset
    \/ set_up_from_file
    \/ write_to_file
    \/ add_command
    \/ add_labware
    \/ add_robot
    \/ add_tool
    \/ add_pipette_tip_group
    \/ goto_labware_index
    \/ pause
    \/ remove_plate_lid
    \/ retrieve_pipette_tip_group
    \/ retrieve_tool

SpecBuilder == BuilderInit /\ [][BuilderNext]_vars

(* ------------------------- claims about the builder --------------------- *)

\* the IDs bound in the builder, by entity kind
BoundRobots == Bound(ast).robot
BoundTools == Bound(ast).tool
BoundLabware == Bound(ast).labware
BoundPipetteTipGroups == Bound(ast).pipette_tip_group

\* the IDs bound for the kind of entity a command references
BoundFor(command) ==
    CASE command.type \in {"GOTO", "PICK_UP_PIPETTE_TIP", "REMOVE_PLATE_LID"} -> BoundLabware
      [] command.type = "RETRIEVE_TOOL" -> BoundTools
      [] command.type = "RETRIEVE_PIPETTE_TIP_GROUP" -> BoundPipetteTipGroups
      [] OTHER -> {}

\* the IDs bound for the kind of entity an add_* operation registers
BoundBy(name) ==
    CASE name = "add_robot" -> BoundRobots
      [] name = "add_tool" -> BoundTools
      [] name = "add_labware" -> BoundLabware
      [] name = "add_pipette_tip_group" -> BoundPipetteTipGroups
      [] OTHER -> {}

AddOps == {"add_robot", "add_tool", "add_labware", "add_pipette_tip_group"}

\* the ID an add_* call registers
NewId(called) == IF called.name = "add_tool" THEN called.args[2] ELSE called.args[1]

\* C12: every symbolic ID referenced by a command of the command list is
\* registered for the kind of entity the command references.
C12_ReferencedIdsAreRegistered ==
    \A k \in DOMAIN ast.tcode :
        ast.tcode[k].id # None => ast.tcode[k].id \in BoundFor(ast.tcode[k])

\* C13 as stated: an add_* operation called with an ID already registered
\* for its kind raises IdExistsError and changes nothing.
C13_Original ==
    [][(op'.name \in AddOps /\ NewId(op') \in BoundBy(op'.name))
          => (raised' = "IdExistsError" /\ ast' = ast)]_vars

\* C13: an add_* operation called with an ID already registered for its kind
\* raises IdExistsError, except add_robot given a robot that carries tools,
\* which raises NotImplementedError; either way it changes nothing.
C13_DuplicateIdIsRejected ==
    [][(op'.name \in AddOps /\ NewId(op') \in BoundBy(op'.name))
          => /\ raised' = IF op'.name = "add_robot" /\ op'.args[2] > 0
                          THEN "NotImplementedError" ELSE "IdExistsError"
             /\ ast' = ast]_vars

\* C13 witness: the second add_tool with the same tool ID raised IdExistsError
C13_Witness ==
    /\ op.name = "add_tool"
    /\ raised = "IdExistsError"
    /\ op.args[1] \in BoundRobots
    /\ op.args[2] \in BoundTools

\* C14 as stated: add_tool with an unregistered robot_id raises IdNotFoundError
\* and leaves every robot's tool list unchanged.
C14_Original ==
    [][(op'.name = "add_tool" /\ op'.args[1] \notin BoundRobots)
          => (raised' = "IdNotFoundError" /\ ast'.fleet.robots = ast.fleet.robots)]_vars

\* C14: add_tool with an unregistered robot_id raises IdNotFoundError when the
\* tool's ID is not registered yet and IdExistsError when it is; either way
\* every robot's tool list is unchanged.
C14_UnknownRobotIsRejected ==
    [][(op'.name = "add_tool" /\ op'.args[1] \notin BoundRobots)
          => /\ raised' = IF op'.args[2] \in BoundTools
                          THEN "IdExistsError" ELSE "IdNotFoundError"
             /\ ast'.fleet.robots = ast.fleet.robots]_vars

\* C14 witness: add_tool named an unregistered robot while another robot,
\* holding a tool, is registered
C14_Witness ==
    /\ op.name = "add_tool"
    /\ raised = "IdNotFoundError"
    /\ op.args[1] \notin BoundRobots
    /\ BoundRobots # {}
    /\ BoundTools # {}

C16_LookupMissIsIdNotFound ==
    [][/\ \A id \in Ids :
             /\ id \notin BoundRobots => find_robot_by_id(id).raised = "IdNotFoundError"
             /\ id \notin BoundTools => find_tool_by_id(id).raised = "IdNotFoundError"
             /\ id \notin BoundLabware => find_labware_by_id(id).raised = "IdNotFoundError"
             /\ id \notin BoundPipetteTipGroups
                   => find_pipette_tip_group_by_id(id).raised = "IdNotFoundError"
       /\ (op'.name = "retrieve_tool" /\ op'.args[1] \notin BoundTools)
             => (raised' = "IdNotFoundError" /\ ast'.tcode = ast.tcode)]_vars

\* C16 witness: retrieve_tool missed while another tool is registered and a
\* command is already in the list
C16_Witness ==
    /\ op.name = "retrieve_tool"
    /\ raised = "IdNotFoundError"
    /\ op.args[1] \notin BoundTools
    /\ BoundTools # {}
    /\ ast.tcode # <<>>

MaxCommands == 2

\* commands a script may hold
ScriptCommands ==
    {Command("PAUSE", None, 0), Command("RETRIEVE_TOOL", "ID-0", 0),
     Command("GOTO", "ID-1", -1)}

\* tcode_api versions a script may carry
Versions == {CurrentVersion, "older"}

\* TCodeScript.model_dump_json (mutant): None fields are left out of the
\* output, here the description
script_model_dump_json_set_only(script) ==
    << <<"metadata", DumpMetadata([script.metadata EXCEPT !.description = "unset"])>>,
       <<"commands", JsonArray(DumpCommand, script.commands)>> >>

\* self.model_dump_json(indent=2)
script_model_dump_json(script) ==
    << <<"metadata", DumpMetadata(script.metadata)>>,
       <<"commands", JsonArray(DumpCommand, script.commands)>> >>

\* cls.model_validate_json(data)
script_model_validate_json(json) ==
    TCodeScript(ValidateMetadata(JsonGet(json, "metadata")),
                FromArray(ValidateCommand, JsonGet(json, "commands")))

ScriptInit ==
    /\ \E name \in Names, description \in Descriptions \cup {None}, timestamp \in {0, 1},
          tcode_api_version \in Versions,
          commands_list \in UNION {[1..n -> ScriptCommands] : n \in 0..MaxCommands} :
          tcode_script =
              TCodeScript([Metadata(name, description, timestamp)
                              EXCEPT !.tcode_api_version = tcode_api_version],
                          commands_list)
    /\ file_object = NoFile
    /\ read_script = NoScript
    /\ warned = FALSE
    /\ ClientInit
    /\ ~run_state
    /\ EqIdle
    /\ BuilderIdle
    /\ RestIdle

\* TCodeScript.write(file_object), lines 925-931
write ==
    /\ file_object = NoFile
    /\ file_object' = script_model_dump_json(tcode_script)
    /\ UNCHANGED <<tcode_script, read_script, warned>>
    /\ UNCHANGED io_other_vars

\* TCodeScript.read(file_object), lines 907-923
read ==
    /\ file_object # NoFile
    /\ read_script = NoScript
    /\ read_script' = script_model_validate_json(file_object)
    /\ warned' = (read_script'.metadata.tcode_api_version # CurrentVersion)
    /\ UNCHANGED <<tcode_script, file_object>>
    /\ UNCHANGED io_other_vars

ScriptNext ==
    \/ write
    \/ read

SpecScript == ScriptInit /\ [][ScriptNext]_vars

C19_ResetClearsBuilder ==
    [][op'.name = "reset"
          => /\ raised' = "none"
             /\ ast'.tcode = <<>>
             /\ Bound(ast') = [robot |-> {}, tool |-> {}, labware |-> {},
                               pipette_tip_group |-> {}]
             /\ \A id \in Ids :
                   /\ IfExists(find_model_by_id(id, ast'.fleet.robots).raised) = "register"
                   /\ IfExists(find_model_by_id(id, AllTools(ast'.fleet.robots)).raised)
                         = "register"
                   /\ IfExists(find_model_by_id(id, ast'.fleet.labware).raised) = "register"
                   /\ IfExists(find_model_by_id(id, ast'.pipette_tips).raised) = "register"
             /\ ast'.metadata.name =
                   IF op'.args[1] = None THEN ast.metadata.name ELSE op'.args[1]
             /\ ast'.metadata.description = op'.args[2]]_vars

\* C19 witness: reset(None, None) was called on a builder that had bound a
\* labware (it is in the file written before) and had a description
C19_Witness ==
    /\ op = Called("reset", <<None, None>>)
    /\ written.labware # {}
    /\ ast.metadata.name \in Names
    /\ ast.metadata.description = None
    /\ JsonGet(JsonGet(file, "metadata"), "description") # JsonNull

(* ------------- pipette tip box: migration from version 1 to 2 ----------- *)

\* the largest schema_version tag a payload carries
MaxVersion == 3
\* PipetteTipLayoutV1.full and .empty: default row_count and column_count
DefaultRowCount == 8
DefaultColumnCount == 12

\* the payload carries no schema_version key
NoTag == -1

\* Python's None where a dict or a model is expected
Null == [type |-> "None"]

\* PipetteTipLayoutV1(layout=...)
PipetteTipLayoutV1(layout) ==
    [type |-> "PipetteTipLayout", schema_version |-> 1, layout |-> layout]

\* PipetteTipLayoutV1.empty()
PipetteTipLayoutV1_empty ==
    PipetteTipLayoutV1([r \in 1..DefaultRowCount |-> [c \in 1..DefaultColumnCount |-> 0]])

\* PipetteTipLayoutV1.full()
PipetteTipLayoutV1_full ==
    PipetteTipLayoutV1([r \in 1..DefaultRowCount |-> [c \in 1..DefaultColumnCount |-> 1]])

\* GridDescriptionV1(row_count=..., column_count=...); the pitches and offsets
\* are not read by anything modelled here
GridDescriptionV1(row_count, column_count) ==
    [type |-> "Grid", schema_version |-> 1,
     row_count |-> row_count, column_count |-> column_count]

\* the grids of the payloads: a 96 tip box and a 24 tip box
Grids == {GridDescriptionV1(8, 12), GridDescriptionV1(4, 6)}

\* a length, the same for x_length, y_length and z_length
Length == [type |-> "ValueWithUnits"]

\* payloads handed to the migration: with or without a schema_version tag,
\* with or without the key "full"
Payloads ==
    {[key \in ({"type", "grid", "pipette_tip", "x_length", "y_length", "z_length"}
                 \cup (IF tag = NoTag THEN {} ELSE {"schema_version"})
                 \cup (IF full = "absent" THEN {} ELSE {"full"}))
        |-> CASE key = "type" -> "PipetteTipBox"
              [] key = "grid" -> grid
              [] key = "pipette_tip" -> pipette_tip
              [] key = "schema_version" -> tag
              [] key = "full" -> full
              [] key \in {"x_length", "y_length", "z_length"} -> Length] :
       tag \in NoTag..MaxVersion, full \in {"absent", "None", "True", "False"},
       grid \in {Null} \cup Grids, pipette_tip \in {Null, [type |-> "PipetteTip"]}}

\* migrate_v1_to_v2 with the two layouts exchanged
migrate_v1_to_v2_exchanged(payload) ==
    IF "schema_version" \in DOMAIN payload /\ payload["schema_version"] # 0
    THEN [raised |-> "ValueError", new_data |-> NoData]
    ELSE IF "full" \notin DOMAIN payload
    THEN [raised |-> "KeyError", new_data |-> NoData]
    ELSE [raised |-> "none",
          new_data |->
              [type |-> "PipetteTipBox",
               schema_version |-> 1,
               grid |-> payload["grid"],
               pipette_tip |-> payload["pipette_tip"],
               pipette_tip_layout |->
                   IF payload["full"] = "None" THEN Null
                   ELSE IF payload["full"] = "True" THEN PipetteTipLayoutV1_empty
                   ELSE PipetteTipLayoutV1_full]]

\* migrate_v1_to_v2(data), lines 40-61: the exception raised ("none" if it
\* returns) and the dict returned
migrate_v1_to_v2(payload) ==
    IF "schema_version" \in DOMAIN payload /\ payload["schema_version"] # 0
    THEN [raised |-> "ValueError", new_data |-> NoData]
    ELSE IF "full" \notin DOMAIN payload
    THEN [raised |-> "KeyError", new_data |-> NoData]
    ELSE [raised |-> "none",
          new_data |->
              [type |-> "PipetteTipBox",
               schema_version |-> 1,
               grid |-> payload["grid"],
               pipette_tip |-> payload["pipette_tip"],
               pipette_tip_layout |->
                   IF payload["full"] = "None" THEN Null
                   ELSE IF payload["full"] = "True" THEN PipetteTipLayoutV1_full
                   ELSE PipetteTipLayoutV1_empty]]

MigrateInit ==
    /\ data \in Payloads
    /\ new_data = NoData
    /\ migrate_raised = "pending"
    /\ ClientInit
    /\ ~run_state
    /\ EqIdle
    /\ BuilderIdle
    /\ IoIdle
    /\ UnitsIdle
    /\ IntegratorIdle

\* one call migrate_v1_to_v2(data)
Migrate ==
    /\ migrate_raised = "pending"
    /\ migrate_raised' = migrate_v1_to_v2(data).raised
    /\ new_data' = migrate_v1_to_v2(data).new_data
    /\ UNCHANGED data
    /\ UNCHANGED migrate_other_vars

MigrateNext == Migrate

SpecMigrate == MigrateInit /\ [][MigrateNext]_vars

\* the schema_version tag of a payload, NoTag if it carries none
TagOf(payload) ==
    IF "schema_version" \in DOMAIN payload THEN payload["schema_version"] ELSE NoTag

\* C20: every payload tagged schema version 1, or carrying no tag, is
\* migrated, and every payload tagged with another version raises ValueError.
C20_MigrationTotalOnVersion1 ==
    migrate_raised # "pending" =>
        IF TagOf(data) \in {NoTag, 1}
        THEN migrate_raised = "none" /\ new_data # NoData
        ELSE migrate_raised = "ValueError"

\* PipetteTipBoxDescriptionV2.model_validate(payload): the model built, or
\* ValidationError. x_length, y_length, z_length, grid and pipette_tip are
\* required and not None, schema_version is the literal 2 when given, a
\* missing pipette_tip_layout is PipetteTipLayoutV1.full() and None is refused.
PipetteTipBoxDescriptionV2(payload) ==
    IF /\ {"x_length", "y_length", "z_length", "grid", "pipette_tip"} \subseteq DOMAIN payload
       /\ payload["grid"] # Null
       /\ payload["pipette_tip"] # Null
       /\ ("type" \in DOMAIN payload => payload["type"] = "PipetteTipBox")
       /\ ("schema_version" \in DOMAIN payload => payload["schema_version"] = 2)
       /\ ("pipette_tip_layout" \in DOMAIN payload => payload["pipette_tip_layout"] # Null)
    THEN [raised |-> "none",
          model |-> [type |-> "PipetteTipBox",
                     schema_version |-> 2,
                     x_length |-> payload["x_length"],
                     y_length |-> payload["y_length"],
                     z_length |-> payload["z_length"],
                     grid |-> payload["grid"],
                     pipette_tip |-> payload["pipette_tip"],
                     pipette_tip_layout |->
                         IF "pipette_tip_layout" \in DOMAIN payload
                         THEN payload["pipette_tip_layout"]
                         ELSE PipetteTipLayoutV1_full]]
    ELSE [raised |-> "ValidationError", model |-> NoData]

\* the call has been made on a payload that has a grid, a pipette tip and
\* the key "full", tagged version 1 or not tagged
MigratedVersion1 ==
    /\ migrate_raised # "pending"
    /\ TagOf(data) \in {NoTag, 1}
    /\ "full" \in DOMAIN data
    /\ data["grid"] # Null
    /\ data["pipette_tip"] # Null

\* the version 2 object built directly from the fields of the payload and
\* a fully populated layout
DirectVersion2 ==
    PipetteTipBoxDescriptionV2(
        [key \in {"x_length", "y_length", "z_length", "grid", "pipette_tip", "pipette_tip_layout"}
           |-> IF key = "pipette_tip_layout" THEN PipetteTipLayoutV1_full ELSE data[key]])

\* C21: for a version-1 payload with full = true, the payload the migration
\* returns validates as the version 2 schema and the object built equals the
\* version 2 object built directly with a fully populated layout.
C21_MigratedPayloadBuildsVersion2 ==
    (MigratedVersion1 /\ data["full"] = "True") =>
        /\ migrate_raised = "none"
        /\ PipetteTipBoxDescriptionV2(new_data).raised = "none"
        /\ PipetteTipBoxDescriptionV2(new_data) = DirectVersion2

C30_LayoutHasTheSizeOfTheGrid ==
    (MigratedVersion1 /\ migrate_raised = "none" /\ data["full"] \in {"True", "False"}) =>
        /\ Len(new_data["pipette_tip_layout"].layout) = data["grid"].row_count
        /\ \A r \in DOMAIN new_data["pipette_tip_layout"].layout :
               Len(new_data["pipette_tip_layout"].layout[r]) = data["grid"].column_count

(* ------------------- ValueWithUnits: binary operations ------------------ *)

\* the largest magnitude of an operand, and the smallest negated
MaxMagnitude == 1

Magnitudes == -MaxMagnitude..MaxMagnitude

\* the unit strings of the operands: two masses and two lengths
UnitStrings == {"kg", "g", "m", "mm"}

\* pint: the dimensionality of a unit
Dimensionality(units) ==
    IF units \in {"kg", "g"} THEN "[mass]" ELSE "[length]"

\* pint: how many of the smaller unit of its dimension one unit is
ToSmallest(units) ==
    IF units \in {"kg", "m"} THEN 1000 ELSE 1

\* pint: str(quantity.units), the long name of a unit
UnitName(units) ==
    CASE units = "kg" -> "kilogram"
      [] units = "g" -> "gram"
      [] units = "m" -> "meter"
      [] units = "mm" -> "millimeter"

\* pint: Q_(a) + Q_(b), Q_(a) - Q_(b), Q_(a) < Q_(b), ... raise
\* DimensionalityError; Q_(a).check(b.units) is false
DimensionalityError(a, b) == Dimensionality(a.units) # Dimensionality(b.units)

\* a magnitude that need not be whole: numerator and denominator
Ratio(numerator, denominator) == <<numerator, denominator>>

\* a ValueWithUnits was returned
Returned(value) == [raised |-> "none", value |-> value]

UnitsError == [raised |-> "UnitsError"]

\* one operation is applied to the operands
Operate(operator, result) ==
    /\ vwu_operator = "none"
    /\ vwu_operator' = operator
    /\ vwu_result' = result
    /\ UNCHANGED <<vwu_self, vwu_other>>
    /\ UNCHANGED units_other_vars

\* __add__ and __sub__, lines 84-136: sign is 1 for +, -1 for -
Additive(sign) ==
    IF vwu_other.units = vwu_self.units
    THEN Returned(ValueWithUnits(Ratio(vwu_self.magnitude + sign * vwu_other.magnitude, 1),
                                 vwu_self.units))
    ELSE IF DimensionalityError(vwu_self, vwu_other)
    THEN UnitsError
    ELSE Returned(ValueWithUnits(
             Ratio(vwu_self.magnitude * ToSmallest(vwu_self.units)
                       + sign * vwu_other.magnitude * ToSmallest(vwu_other.units),
                   ToSmallest(vwu_self.units)),
             UnitName(vwu_self.units)))

\* self + other
ValueWithUnits_add == Operate("+", Additive(1))

\* self - other
ValueWithUnits_sub == Operate("-", Additive(-1))

\* __eq__ without the check of the units: pint's == is False for
\* incompatible units
ValueWithUnits_eq_unchecked ==
    Operate("==",
            IF vwu_other.units = vwu_self.units
            THEN Returned(vwu_self.magnitude = vwu_other.magnitude)
            ELSE Returned(/\ ~DimensionalityError(vwu_self, vwu_other)
                          /\ vwu_self.magnitude * ToSmallest(vwu_self.units)
                                 = vwu_other.magnitude * ToSmallest(vwu_other.units)))

\* self == other, lines 138-162
ValueWithUnits_eq ==
    Operate("==",
            IF vwu_other.units = vwu_self.units
            THEN Returned(vwu_self.magnitude = vwu_other.magnitude)
            ELSE IF DimensionalityError(vwu_self, vwu_other)
            THEN UnitsError
            ELSE Returned(vwu_self.magnitude * ToSmallest(vwu_self.units)
                              = vwu_other.magnitude * ToSmallest(vwu_other.units)))

\* the comparison an operator stands for
Compare(operator, a, b) ==
    CASE operator = "<" -> a < b
      [] operator = "<=" -> a <= b
      [] operator = ">" -> a > b
      [] operator = ">=" -> a >= b

\* __lt__, __le__, __gt__, __ge__, lines 171-261: the operands brought to
\* the smaller unit and handed to the comparison
Ordered(operator) ==
    IF vwu_other.units = vwu_self.units
    THEN Returned(Compare(operator, vwu_self.magnitude, vwu_other.magnitude))
    ELSE IF DimensionalityError(vwu_self, vwu_other)
    THEN UnitsError
    ELSE Returned(Compare(operator,
                          vwu_self.magnitude * ToSmallest(vwu_self.units),
                          vwu_other.magnitude * ToSmallest(vwu_other.units)))

\* self < other
ValueWithUnits_lt == Operate("<", Ordered("<"))

\* self <= other
ValueWithUnits_le == Operate("<=", Ordered("<="))

\* self > other
ValueWithUnits_gt == Operate(">", Ordered(">"))

\* self >= other
ValueWithUnits_ge == Operate(">=", Ordered(">="))

UnitsInit ==
    /\ vwu_self \in {ValueWithUnits(magnitude, units) :
                       magnitude \in Magnitudes, units \in UnitStrings}
    /\ vwu_other \in {ValueWithUnits(magnitude, units) :
                        magnitude \in Magnitudes, units \in UnitStrings}
    /\ vwu_operator = "none"
    /\ vwu_result = NoResult
    /\ ClientInit
    /\ ~run_state
    /\ EqIdle
    /\ BuilderIdle
    /\ IoIdle
    /\ MigrateIdle
    /\ IntegratorIdle

UnitsNext ==
    \/ ValueWithUnits_add
    \/ ValueWithUnits_sub
    \/ ValueWithUnits_eq
    \/ ValueWithUnits_lt
    \/ ValueWithUnits_le
    \/ ValueWithUnits_gt
    \/ ValueWithUnits_ge

SpecUnits == UnitsInit /\ [][UnitsNext]_vars

\* C23: +, -, ==, <, <=, > and >= between two quantities whose units have
\* different dimensionalities raise UnitsError, whatever the magnitudes.
C23_IncompatibleUnitsRaiseUnitsError ==
    (vwu_operator # "none" /\ DimensionalityError(vwu_self, vwu_other)) =>
        vwu_result = UnitsError

\* == between 0 kg and 0 m has raised UnitsError
C23_Witness ==
    /\ vwu_operator = "=="
    /\ vwu_self = ValueWithUnits(0, "kg")
    /\ vwu_other = ValueWithUnits(0, "m")
    /\ vwu_result = UnitsError

(* --------------- the run state the client leaves behind ----------------- *)

\* the last set_run_state request sent
LastRunState ==
    LET s == Sent({"set_run_state"})
    IN  sent[CHOOSE k \in s : \A j \in s : j <= k]

\* C24: when execute_run_loop has ended after polling at least once, however
\* it ended, the last run-state request sent is set_run_state(false).
C24_RunLoopEndsPaused ==
    (InRunLoop /\ pc = "done" /\ Polls > 0) => LastRunState = set_run_state(FALSE)

\* C25: when teach_point has ended, every set_run_state(true) it sent is
\* followed by a set_run_state(false).
C25_TeachPointEndsPaused ==
    (call = "teach_point" /\ pc = "done") =>
        \A k \in DOMAIN sent :
            sent[k] = set_run_state(TRUE) =>
                \E j \in DOMAIN sent : j > k /\ sent[j] = set_run_state(FALSE)

(* ------------------------ the key loop of teach_point ------------------- *)

\* the jog request a key stands for
JogOf(event) == jog_command(robot_id, IF event = "w" THEN JogStep ELSE -JogStep)

\* what teach_point has sent so far: enter_teach_mode first, exit_teach_mode
\* last if at all, and in between jog requests, each followed by
\* set_run_state(true) unless it failed
JogsAreBracketed ==
    /\ \A k \in DOMAIN sent :
          /\ sent[k].op \in {"enter_teach_mode", "schedule_command",
                             "set_run_state", "exit_teach_mode"}
          /\ sent[k].op = "enter_teach_mode" => k = 1 /\ sent[k] = enter_teach_mode(robot_id)
          /\ sent[k].op = "exit_teach_mode" => k = Len(sent) /\ pc = "done"
          /\ sent[k].op = "schedule_command" =>
                /\ k > 1
                /\ sent[k] \in {JogOf("w"), JogOf("s")}
                /\ k < Len(sent) =>
                      sent[k + 1] \in {set_run_state(TRUE), exit_teach_mode(robot_id)}
          /\ sent[k].op = "set_run_state" =>
                /\ k > 1
                /\ sent[k] = set_run_state(TRUE)
                /\ sent[k - 1].op = "schedule_command"
    /\ pc \in {"tp_jog_schedule", "tp_jog_run"} => last_key \in {"w", "s"}
    /\ pc = "tp_jog_run" => Last(sent) = JogOf(last_key)
    /\ (pc = "tp_key" /\ last_key \in {"w", "s"}) =>
          /\ Last(sent) = set_run_state(TRUE)
          /\ sent[Len(sent) - 1] = JogOf(last_key)

\* C28: in teach_point, reading a key sends nothing by itself; "w" and "s"
\* lead to one schedule_command of the relative move by +JogStep and -JogStep
\* for the taught robot, followed by one set_run_state(true); "q" and "esc"
\* end the loop; any other key sends no request; the jog requests lie after
\* enter_teach_mode and before exit_teach_mode.  (A request that fails, or a
\* signal, ends the loop at once: the jog is then cut short.)
C28_KeyLoopJogs ==
    [][call' = "teach_point" =>
          /\ JogsAreBracketed'
          /\ keys' # keys =>
                /\ sent' = sent
                /\ pc' = CASE last_key' \in {"w", "s"} -> "tp_jog_schedule"
                           [] last_key' \in {"q", "esc"} -> "tp_finally"
                           [] last_key' \in {"KeyboardInterrupt", "OSError"} -> "tp_finally"
                           [] OTHER -> "tp_key"
          /\ (pc = "tp_jog_schedule" /\ pc' = "tp_jog_run") =>
                sent' = Append(sent, JogOf(last_key))
          /\ (pc = "tp_jog_run" /\ pc' = "tp_key") =>
                sent' = Append(sent, set_run_state(TRUE))]_vars

\* "w" then "s": two jogs, each followed by set_run_state(true)
C28_Witness ==
    /\ call = "teach_point"
    /\ pc = "tp_key"
    /\ last_key = "s"
    /\ sent = <<enter_teach_mode(robot_id), JogOf("w"), set_run_state(TRUE),
                JogOf("s"), set_run_state(TRUE)>>

(* ------------------ the builder: operations that raise ------------------ *)

\* C26: a builder operation that raises IdExistsError, IdNotFoundError,
\* ValueError or NotImplementedError leaves the tree of the builder as it
\* was: no command is appended, no robot, tool, labware or pipette tip group
\* is registered, and the file is not written.
C26_RaisingLeavesBuilderUnchanged ==
    [][(clock' # clock /\ raised' \in {"IdExistsError", "IdNotFoundError",
                                       "ValueError", "NotImplementedError"}) =>
          /\ ast' = ast
          /\ Bound(ast') = Bound(ast)
          /\ file' = file]_vars

\* retrieve_pipette_tip_group() without an id has raised ValueError on a
\* builder that holds a command and a registered labware
C26_Witness ==
    /\ raised = "ValueError"
    /\ op.name = "retrieve_pipette_tip_group"
    /\ Len(ast.tcode) > 0
    /\ BoundLabware # {}

(* --------------------------- the builder: emit -------------------------- *)

\* emit(), lines 73-75: self.ast.model_copy() is a new TCodeAST whose fields
\* are the metadata, fleet, pipette_tips and tcode objects of self.ast
emit ==
    /\ Call("emit", <<>>)
    /\ raised' = "none"
    /\ ast' = ast
    /\ emitted' = [returned |-> TRUE, shared |-> TRUE, snapshot |-> ast, script |-> ast]
    /\ UNCHANGED <<file, written>>
    /\ UNCHANGED builder_other_vars

\* the script emit() returned, as its holder reads it now
EmittedScript == IF emitted.shared THEN ast ELSE emitted.script

\* the holder of the script emit() returned appends a command to its tcode
emitted_tcode_append ==
    \E command \in Commands :
        /\ emitted.returned
        /\ Call("emitted.tcode.append", <<command>>)
        /\ raised' = raised
        /\ IF emitted.shared
           THEN /\ ast' = [ast EXCEPT !.tcode = Append(@, command)]
                /\ emitted' = emitted
           ELSE /\ ast' = ast
                /\ emitted' = [emitted EXCEPT !.script.tcode = Append(@, command)]
        /\ UNCHANGED <<file, written>>
        /\ UNCHANGED builder_other_vars

EmitNext ==
    \/ emit
    \/ reset
    \/ write_to_file
    \/ add_command
    \/ add_labware
    \/ add_robot
    \/ add_tool
    \/ emitted_tcode_append

SpecEmit == BuilderInit /\ [][EmitNext]_vars

\* C27: once emit() has returned a script, an operation on the builder does
\* not change that script, and a change made to that script does not change
\* the builder.
C27_EmittedIsASnapshot ==
    [][(emitted.returned /\ clock' # clock /\ op'.name # "emit") =>
          IF op'.name = "emitted.tcode.append"
          THEN ast' = ast
          ELSE EmittedScript' = EmittedScript]_vars

(* ------------------------------ integrator ------------------------------ *)

\* the most webhooks the integrator receives
MaxWebhooks == 3
\* TCODE_SERVER_DEFAULT_PORT, integrator.py:16
TCODE_SERVER_DEFAULT_PORT == 8002

\* the hosts of the fleet controllers that send webhooks
Hosts == {"fleet-a", "fleet-b"}

\* _default_servicer_url, client.py:25
default_servicer_url == "http://localhost:8002"

\* f"http://{server_host}:{TCODE_SERVER_DEFAULT_PORT}"
ServerUrl(server_host) ==
    "http://" \o server_host \o ":" \o ToString(TCODE_SERVER_DEFAULT_PORT)

\* a webhook received from client_host (None when request.client is None),
\* whose action has not resumed yet
WebHook(client_host) == [client_host |-> client_host, resumed |-> "pending"]

IntegratorInit ==
    /\ tcode_server_host \in Hosts \cup {None}
    /\ incoming_request_host = None
    /\ webhooks = <<>>
    /\ ClientInit
    /\ ~run_state
    /\ EqIdle
    /\ BuilderIdle
    /\ IoIdle
    /\ MigrateIdle
    /\ UnitsIdle

\* POST /, lines 70-80: the host of the sender is stored on the integrator
\* and perform_action is queued as a background task
post_webhook ==
    \E client_host \in Hosts \cup {None} :
        /\ Len(webhooks) < MaxWebhooks
        /\ incoming_request_host' =
               IF client_host # None THEN client_host ELSE incoming_request_host
        /\ webhooks' = Append(webhooks, WebHook(client_host))
        /\ UNCHANGED tcode_server_host
        /\ UNCHANGED integrator_other_vars

\* resume_tcode(), lines 86-92, called by perform_action for webhook w: the
\* URL set_run_state(True) is sent to
resume_tcode(w) ==
    /\ webhooks[w].resumed = "pending"
    /\ LET server_host == IF tcode_server_host # None THEN tcode_server_host
                          ELSE incoming_request_host
           server_url == IF server_host # None THEN ServerUrl(server_host)
                         ELSE default_servicer_url
       IN  webhooks' = [webhooks EXCEPT ![w].resumed = server_url]
    /\ UNCHANGED <<tcode_server_host, incoming_request_host>>
    /\ UNCHANGED integrator_other_vars

\* the background task of one of the webhooks received runs
perform_action == \E w \in DOMAIN webhooks : resume_tcode(w)

IntegratorNext ==
    \/ post_webhook
    \/ perform_action

SpecIntegrator == IntegratorInit /\ [][IntegratorNext]_vars

\* C29: with no tcode_server_host configured, the resume_tcode of the action
\* of a webhook sends set_run_state(true) to the fleet controller that sent
\* that webhook.
C29_ResumeGoesToTheSender ==
    tcode_server_host = None =>
        \A w \in DOMAIN webhooks :
            (webhooks[w].resumed # "pending" /\ webhooks[w].client_host # None) =>
                webhooks[w].resumed = ServerUrl(webhooks[w].client_host)

====
